---- MODULE Spec2Model ----
(***************************************************************************)
(* A model of src/src/rgbd/src/normal.cpp: the RgbdNormals facade (its     *)
(* configuration, its lazily built and validated estimator cache, and its  *)
(* compute entry point), the sign convention enforcer signNormal, and the  *)
(* per-element work of FALS<T>::compute and LINEMOD<T>::computeImpl.        *)
(* SRI<T>::compute is not modelled.                                        *)
(*                                                                         *)
(* Arithmetic is exact: a floating-point quantity is a rational or a       *)
(* vector n/sqrt(d) over the integers, and NaN is a value of its own.      *)
(***************************************************************************)
EXTENDS Integers, Sequences, FiniteSets, TLC

VARIABLES
    phase,      \* outcome of the constructor; "crashed", "destroyed" later on
    cfg,        \* rows_, cols_, depth_, K_, window_size_, method_ of the facade
    impl,       \* rgbd_normals_impl_ and the estimator object it points to
    builds,     \* number of RgbdNormalsImpl::cache() calls so far (instrumentation)
    changes,    \* number of configuration changes so far
    last,       \* what the last facade call did and returned
    sgn,        \* signNormal on its own: its argument and what it returned
    lm,         \* LINEMOD<T>::computeImpl on one depth map: its loop and results
    dp,         \* FALS<T>::compute on one radius image with sentinels
    calls,      \* the compute() calls in progress, one per thread
    ix          \* one estimator walking an input of its own size: the indices used

vars == <<phase, cfg, impl, builds, changes, last, sgn, lm, dp, calls, ix>>

----------------------------------------------------------------------------
(* Bounds of the model *)

\* at most this many changes of a Configuration field per run
MaxChanges == 1

----------------------------------------------------------------------------
(* Exact arithmetic. TLC's integers are 32 bits wide and the products that   *)
(* LINEMOD forms are not, so integers are kept as a sign and a magnitude in  *)
(* base-Radix limbs, least significant first, without leading zero limbs.    *)

Radix == 10000

RECURSIVE NFromNat(_)
NFromNat(n) == IF n = 0 THEN << >> ELSE <<n % Radix>> \o NFromNat(n \div Radix)

RECURSIVE NTrim(_)
NTrim(a) ==
    IF a = << >> THEN << >>
    ELSE IF a[Len(a)] = 0 THEN NTrim(SubSeq(a, 1, Len(a) - 1))
    ELSE a

RECURSIVE NAddC(_, _, _)
NAddC(a, b, carry) ==
    IF a = << >> /\ b = << >>
    THEN IF carry = 0 THEN << >> ELSE <<carry>>
    ELSE LET x == IF a = << >> THEN 0 ELSE Head(a)
             y == IF b = << >> THEN 0 ELSE Head(b)
             t == x + y + carry
         IN  <<t % Radix>>
               \o NAddC(IF a = << >> THEN a ELSE Tail(a),
                        IF b = << >> THEN b ELSE Tail(b), t \div Radix)

NAdd(a, b) == NAddC(a, b, 0)

\* a - b for a >= b
RECURSIVE NSubB(_, _, _)
NSubB(a, b, borrow) ==
    IF a = << >> THEN << >>
    ELSE LET y == IF b = << >> THEN 0 ELSE Head(b)
             t == Head(a) - y - borrow
         IN  <<IF t < 0 THEN t + Radix ELSE t>>
               \o NSubB(Tail(a), IF b = << >> THEN b ELSE Tail(b),
                        IF t < 0 THEN 1 ELSE 0)

NSub(a, b) == NTrim(NSubB(a, b, 0))

\* -1, 0, 1 as a < b, a = b, a > b
RECURSIVE NCmpFrom(_, _, _)
NCmpFrom(a, b, i) ==
    IF i = 0 THEN 0
    ELSE IF a[i] < b[i] THEN -1
    ELSE IF a[i] > b[i] THEN 1
    ELSE NCmpFrom(a, b, i - 1)

NCmp(a, b) ==
    IF Len(a) < Len(b) THEN -1
    ELSE IF Len(a) > Len(b) THEN 1
    ELSE NCmpFrom(a, b, Len(a))

RECURSIVE NMulLimb(_, _, _)
NMulLimb(a, k, carry) ==
    IF a = << >> THEN NFromNat(carry)
    ELSE LET t == Head(a) * k + carry
         IN  <<t % Radix>> \o NMulLimb(Tail(a), k, t \div Radix)

RECURSIVE NMul(_, _)
NMul(a, b) ==
    IF a = << >> \/ b = << >> THEN << >>
    ELSE NTrim(NAdd(NMulLimb(b, Head(a), 0), <<0>> \o NMul(Tail(a), b)))

\* signed integers
Z(n) == [neg |-> n < 0, mag |-> NFromNat(IF n < 0 THEN -n ELSE n)]
ZZero == Z(0)
ZSign(a) == IF a.mag = << >> THEN 0 ELSE IF a.neg THEN -1 ELSE 1
ZNeg(a) == IF a.mag = << >> THEN a ELSE [neg |-> ~a.neg, mag |-> a.mag]
ZAdd(a, b) ==
    IF a.neg = b.neg THEN [neg |-> a.neg /\ NAdd(a.mag, b.mag) # << >>,
                           mag |-> NAdd(a.mag, b.mag)]
    ELSE LET c == NCmp(a.mag, b.mag)
         IN  IF c = 0 THEN ZZero
             ELSE IF c > 0 THEN [neg |-> a.neg, mag |-> NSub(a.mag, b.mag)]
             ELSE [neg |-> b.neg, mag |-> NSub(b.mag, a.mag)]
ZSub(a, b) == ZAdd(a, ZNeg(b))
ZMul(a, b) ==
    LET m == NMul(a.mag, b.mag)
    IN  [neg |-> (m # << >>) /\ (a.neg # b.neg), mag |-> m]

\* 3-vectors of integers
ZVec(v) == <<Z(v[1]), Z(v[2]), Z(v[3])>>
ZVecNeg(v) == <<ZNeg(v[1]), ZNeg(v[2]), ZNeg(v[3])>>
ZDot(v, w) == ZAdd(ZAdd(ZMul(v[1], w[1]), ZMul(v[2], w[2])), ZMul(v[3], w[3]))
\* cv::Vec::cross
ZCross(v, w) ==
    <<ZSub(ZMul(v[2], w[3]), ZMul(v[3], w[2])),
      ZSub(ZMul(v[3], w[1]), ZMul(v[1], w[3])),
      ZSub(ZMul(v[1], w[2]), ZMul(v[2], w[1]))>>
ZVecIsZero(v) == \A i \in 1..3 : ZSign(v[i]) = 0

----------------------------------------------------------------------------
(* Real 3-vectors: num / sqrt(den2) componentwise, or NaN in every component *)

RVec(num, den2) == [nan |-> FALSE, num |-> num, den2 |-> den2]
NaNVec == [nan |-> TRUE, num |-> ZVec(<<0, 0, 0>>), den2 |-> Z(1)]

\* the vector of integers v
RFromInts(v) == RVec(ZVec(v), Z(1))

\* equality of the real vectors a and b
RVecEq(a, b) ==
    IF a.nan \/ b.nan THEN a.nan /\ b.nan
    ELSE \A i \in 1..3 :
           /\ ZSign(a.num[i]) = ZSign(b.num[i])
           /\ ZMul(ZMul(a.num[i], a.num[i]), b.den2)
                = ZMul(ZMul(b.num[i], b.num[i]), a.den2)

\* |v| = 1
RVecIsUnit(v) == ~v.nan /\ ZDot(v.num, v.num) = v.den2

\* vec[0]^2 + vec[1]^2 + vec[2]^2, as the ratio p / q
SquaredNorm(v) == [p |-> ZDot(v.num, v.num), q |-> v.den2]

\* norm_vec: the square root of that ratio
norm_vec(v) == SquaredNorm(v)

\* v / sqrt(p/q) for a vector whose den2 is q: num / sqrt(den2 * p / q)
DivideBySqrt(v, n) == RVec(v.num, n.p)

\* v * sqrt(p/q) for a vector whose den2 is p: num / sqrt(den2 * q / p)
TimesSqrt(v, n) == RVec(v.num, n.q)

\* -v
RNeg(v) == RVec(ZVecNeg(v.num), v.den2)

\* signNormal(const Vec&, Vec&) with >= in place of >
signNormalVec_GreaterOrEqual(normal_in) ==
    IF normal_in.nan \/ ZVecIsZero(normal_in.num) THEN NaNVec
    ELSE IF ZSign(normal_in.num[3]) >= 0
         THEN DivideBySqrt(RNeg(normal_in), norm_vec(normal_in))
         ELSE DivideBySqrt(normal_in, norm_vec(normal_in))

\* signNormal(const Vec&, Vec&). 0/0 and anything with NaN are NaN.
signNormalVec(normal_in) ==
    IF normal_in.nan \/ ZVecIsZero(normal_in.num) THEN NaNVec
    ELSE IF ZSign(normal_in.num[3]) > 0
         THEN DivideBySqrt(RNeg(normal_in), norm_vec(normal_in))
         ELSE DivideBySqrt(normal_in, norm_vec(normal_in))

\* signNormal(T a, T b, T c, Vec&) on the components of abc:
\* norm = 1 / sqrt(a*a + b*b + c*c), each component times norm
signNormalAbc(abc) ==
    IF abc.nan \/ ZVecIsZero(abc.num) THEN NaNVec
    ELSE LET s == SquaredNorm(abc)
             norm == [p |-> s.q, q |-> s.p]
         IN  IF ZSign(abc.num[3]) > 0
             THEN TimesSqrt(RNeg(abc), norm)
             ELSE TimesSqrt(abc, norm)

----------------------------------------------------------------------------
(* Configuration values *)

FloatDepths == {"CV_32F", "CV_64F"}
Methods == {"FALS", "LINEMOD", "SRI"}
WindowSizes == {1, 3, 5, 7}

\* the intrinsic matrix, a cv::Mat: its shape, its element type and its
\* elements in row-major order
Mat3(type, v) == [rows |-> 3, cols |-> 3, type |-> type, val |-> v]
KA == Mat3("CV_64F", <<8, 0, 3, 0, 8, 1, 0, 0, 1>>)
KB == Mat3("CV_64F", <<8, 0, 4, 0, 8, 1, 0, 0, 1>>)
KF == Mat3("CV_32F", <<8, 0, 3, 0, 8, 1, 0, 0, 1>>)
K23 == [rows |-> 2, cols |-> 3, type |-> "CV_64F", val |-> <<8, 0, 3, 0, 8, 1>>]

RowsDom == {0, 2, 3}
ColsDom == {0, 6, 7}
DepthDom == FloatDepths \cup {"CV_16U"}
WindowDom == WindowSizes \cup {2}
MethodDom == Methods \cup {"OTHER"}
KDom == {KA, KB, KF, K23}

Configurations ==
    [rows : RowsDom, cols : ColsDom, depth : DepthDom, K : KDom,
     window_size : WindowDom, method : MethodDom]

\* the arguments the facade is constructed with
CtorArguments ==
    [rows : {0, 2}, cols : {6}, depth : DepthDom, K : {KA, K23},
     window_size : {3}, method : MethodDom]

ValidConfig(c) ==
    /\ c.rows > 0 /\ c.cols > 0
    /\ c.depth \in FloatDepths
    /\ c.window_size \in WindowSizes
    /\ c.method \in Methods
    /\ c.K.rows = 3 /\ c.K.cols = 3 /\ c.K.type \in FloatDepths

----------------------------------------------------------------------------
(* The estimator object behind rgbd_normals_impl_ *)

\* the template argument the facade picks from a depth tag: float for CV_32F,
\* double for everything else
TypeOf(depth) == IF depth = "CV_32F" THEN "float" ELSE "double"

NullImpl ==
    [null |-> TRUE, freed |-> FALSE, class |-> "none", T |-> "none",
     rows_ |-> 0, cols_ |-> 0, depth_ |-> "none", window_size_ |-> 0,
     method_ |-> "none", K_ori_ |-> K23]

\* RgbdNormalsImpl::RgbdNormalsImpl, reached through new FALS<T> / LINEMOD<T> /
\* SRI<T>: the object keeps a copy of every Configuration field
NewImpl(rows, cols, window_size, depth, K, method) ==
    [null |-> FALSE, freed |-> FALSE, class |-> method, T |-> TypeOf(depth),
     rows_ |-> rows, cols_ |-> cols, depth_ |-> depth,
     window_size_ |-> window_size, method_ |-> method, K_ori_ |-> K]

\* the Configuration an estimator object was constructed from
OriginOf(o) ==
    [rows |-> o.rows_, cols |-> o.cols_, depth |-> o.depth_, K |-> o.K_ori_,
     window_size |-> o.window_size_, method |-> o.method_]

\* validate with the negation of the K comparison dropped
validate_KTestNotNegated(o, rows, cols, depth, K_ori, window_size, method) ==
    IF (K_ori.cols # o.K_ori_.cols) \/ (K_ori.rows # o.K_ori_.rows)
         \/ (K_ori.type # o.K_ori_.type)
    THEN FALSE
    ELSE LET K_test == \E i \in 1..Len(K_ori.val) : K_ori.val[i] # o.K_ori_.val[i]
         IN  (rows = o.rows_) /\ (o.cols_ # 0) /\ (window_size = o.window_size_)
               /\ (depth = o.depth_) /\ K_test /\ (method = o.method_)

\* RgbdNormalsImpl::validate. The test of cols is the assignment cols = cols_,
\* whose value is cols_ converted to bool.
validate(o, rows, cols, depth, K_ori, window_size, method) ==
    IF (K_ori.cols # o.K_ori_.cols) \/ (K_ori.rows # o.K_ori_.rows)
         \/ (K_ori.type # o.K_ori_.type)
    THEN FALSE
    ELSE LET K_test == ~(\E i \in 1..Len(K_ori.val) : K_ori.val[i] # o.K_ori_.val[i])
         IN  (rows = o.rows_) /\ (o.cols_ # 0) /\ (window_size = o.window_size_)
               /\ (depth = o.depth_) /\ K_test /\ (method = o.method_)

\* delete_normals_impl: the object after the call, and the type the pointer was
\* cast to for the delete ("none": nothing was deleted)
DeleteTag(method_, depth) ==
    IF method_ \in Methods THEN <<method_, TypeOf(depth)>> ELSE <<"none", "none">>

delete_normals_impl(o, method_, depth) ==
    IF o.null THEN o
    ELSE IF method_ \in Methods THEN [o EXCEPT !.freed = TRUE]
    ELSE o

\* the four CV_Assert of initialize_normals_impl
InitAsserts(rows, cols, depth, K, window_size, method, K_) ==
    /\ rows > 0 /\ cols > 0 /\ depth \in FloatDepths
    /\ window_size \in WindowSizes
    /\ K_.cols = 3 /\ K.rows = 3 /\ K.type \in FloatDepths
    /\ method \in Methods

\* initialize_normals_impl on facade fields c with handle o: a failed assertion
\* throws and leaves the handle as it was; otherwise a new estimator is
\* constructed, stored in the handle, and its cache() is run
initialize_normals_impl(c, o, b) ==
    IF ~InitAsserts(c.rows, c.cols, c.depth, c.K, c.window_size, c.method, c.K)
    THEN [impl |-> o, builds |-> b, outcome |-> "precondition", built |-> FALSE]
    ELSE [impl |-> NewImpl(c.rows, c.cols, c.window_size, c.depth, c.K, c.method),
          builds |-> b + 1, outcome |-> "ok", built |-> TRUE]

\* what using an already deleted object may do
UBChoices == {"true", "false", "crash"}

\* the choices a call has: one, unless the handle points to a deleted object
\* or the call may read or write outside an array
UBFor(o, risky) == IF (~o.null /\ o.freed) \/ risky THEN UBChoices ELSE {"true"}

\* RgbdNormals::initialize on facade fields c, handle o and build count b.
\* u resolves the undefined behaviour of validate() on a deleted object.
initialize(c, o, b, u) ==
    IF o.null
    THEN initialize_normals_impl(c, o, b)
           @@ [deleted |-> FALSE, ub |-> FALSE, tag |-> <<"none", "none">>,
               hit |-> FALSE]
    ELSE IF o.freed /\ u = "crash"
    THEN [impl |-> o, builds |-> b, outcome |-> "crash", built |-> FALSE,
          deleted |-> FALSE, ub |-> TRUE, tag |-> <<"none", "none">>, hit |-> FALSE]
    ELSE LET ok == IF o.freed THEN u = "true"
                   ELSE validate(o, c.rows, c.cols, c.depth, c.K, c.window_size,
                                 c.method)
         IN  IF ok
             THEN [impl |-> o, builds |-> b, outcome |-> "ok", built |-> FALSE,
                   deleted |-> FALSE, ub |-> o.freed, tag |-> <<"none", "none">>,
                   hit |-> TRUE]
             ELSE initialize_normals_impl(
                      c, delete_normals_impl(o, c.method, c.depth), b)
                    @@ [deleted |-> c.method \in Methods, ub |-> o.freed,
                        tag |-> DeleteTag(c.method, c.depth), hit |-> FALSE]

----------------------------------------------------------------------------
(* RgbdNormals::operator() *)

\* the arrays a caller may hand to compute: dimensionality, size, channel count
\* and element type
Array(rows, cols, channels, depth) ==
    [dims |-> 2, rows |-> rows, cols |-> cols, channels |-> channels,
     depth |-> depth]

Inputs ==
    {Array(2, 6, ch, d) : ch \in {1, 3}, d \in {"CV_8U", "CV_16U", "CV_32F", "CV_64F"}}
      \cup {Array(3, 7, 3, "CV_32F"), Array(3, 7, 1, "CV_16U"),
            Array(0, 6, 3, "CV_32F")}
      \cup {[dims |-> 3, rows |-> 2, cols |-> 6, channels |-> 3, depth |-> "CV_32F"]}

NoInput == [dims |-> 0, rows |-> 0, cols |-> 0, channels |-> 0, depth |-> "none"]
NoOutput == [rows |-> 0, cols |-> 0, channels |-> 0, depth |-> "none"]
NoDispatch ==
    [class |-> "none", T |-> "none",
     depth |-> [of |-> "none", channel |-> -1, rows |-> 0, cols |-> 0]]

\* the input assertions with the element type check of FALS left out
InputAsserts_NoDepthCheck(method_, in) ==
    CASE method_ = "FALS" ->
           in.channels = 3
      [] method_ = "LINEMOD" ->
           \/ (in.channels = 3 /\ in.depth \in FloatDepths)
           \/ (in.channels = 1 /\ in.depth \in {"CV_16U", "CV_32F", "CV_64F"})
      [] method_ = "SRI" ->
           in.channels = 3 /\ in.depth \in FloatDepths
      [] OTHER -> TRUE

\* the CV_Assert on the input that the switch on method_ makes; the switch has
\* no default, so any other method_ checks nothing
InputAsserts(method_, in) ==
    CASE method_ = "FALS" ->
           in.channels = 3 /\ in.depth \in FloatDepths
      [] method_ = "LINEMOD" ->
           \/ (in.channels = 3 /\ in.depth \in FloatDepths)
           \/ (in.channels = 1 /\ in.depth \in {"CV_16U", "CV_32F", "CV_64F"})
      [] method_ = "SRI" ->
           in.channels = 3 /\ in.depth \in FloatDepths
      [] OTHER -> TRUE

\* points3d_in.empty()
IsEmpty(in) == in.rows = 0 \/ in.cols = 0

\* an array handed to an estimator: where its elements come from ("input":
\* the caller's array, "garbage": an indeterminate matrix header), which
\* channel of it (-1: all of them), and its size
Whole(of, in) == [of |-> of, channel |-> -1, rows |-> in.rows, cols |-> in.cols]
NoArray == [of |-> "none", channel |-> -1, rows |-> 0, cols |-> 0]
Garbage == [of |-> "garbage", channel |-> -1, rows |-> 0, cols |-> 0]

\* cv::Mat points3d: default-constructed (empty), and assigned from the input
\* (converted to depth_ where needed) only when method_ is SRI or FALS
Points3d(method_, in) ==
    IF method_ = "SRI" \/ method_ = "FALS" THEN Whole("input", in) ELSE NoArray

\* cv::split(m, channels): one single-channel array per channel of m; an empty
\* m leaves the vector empty
Split(m, nchannels) ==
    IF m.of = "none" \/ m.rows = 0 \/ m.cols = 0 THEN << >>
    ELSE [k \in 1..nchannels |-> [m EXCEPT !.channel = k - 1]]

\* the array LINEMOD's compute is given: channels[2] after
\* cv::split(points3d, channels) for a three-channel input, else points3d_ori.
\* Indexing the vector past its end is undefined.
LinemodDepth(method_, in) ==
    IF in.channels = 3
    THEN LET channels == Split(Points3d(method_, in), in.channels)
         IN  IF Len(channels) > 2 THEN channels[3] ELSE Garbage
    ELSE Whole("input", in)

\* FALS<T>::compute walks rows_ * cols_ elements of the radius and of the
\* output, whatever their size: more elements than they hold is an overrun
FalsOverrun(o, in) == o.rows_ * o.cols_ > in.rows * in.cols

\* the estimator call the final switch on method_ makes: the type the handle
\* is cast to and the array it passes on
Dispatch(c, in) ==
    IF c.method \in Methods
    THEN [class |-> c.method, T |-> TypeOf(c.depth),
          depth |-> IF c.method = "LINEMOD" THEN LinemodDepth(c.method, in)
                    ELSE Points3d(c.method, in)]
    ELSE NoDispatch

\* normals_out.create(points3d_ori.size(), CV_MAKETYPE(depth_, 3))
OutputOf(c, in) ==
    [rows |-> in.rows, cols |-> in.cols, channels |-> 3, depth |-> c.depth]

CallNone ==
    [op |-> "none", outcome |-> "ok", initRan |-> FALSE, built |-> FALSE,
     deleted |-> FALSE, ub |-> FALSE, hit |-> FALSE, tag |-> <<"none", "none">>,
     in |-> NoInput, out |-> NoOutput, dispatch |-> NoDispatch,
     field |-> "none", matched |-> FALSE, after |-> "none"]

\* operator() on facade fields c, handle o, build count b and input in; u
\* resolves undefined behaviour. The result names the new handle and build
\* count and what the call did.
compute(c, o, b, in, u) ==
    IF in.dims # 2 \/ ~InputAsserts(c.method, in)
    THEN [impl |-> o, builds |-> b,
          call |-> [CallNone EXCEPT !.op = "compute", !.outcome = "precondition",
                                    !.in = in]]
    ELSE LET r == initialize(c, o, b, u)
             ran == [CallNone EXCEPT !.op = "compute", !.in = in, !.initRan = TRUE,
                                     !.outcome = r.outcome, !.built = r.built,
                                     !.deleted = r.deleted, !.ub = r.ub,
                                     !.hit = r.hit, !.tag = r.tag]
         IN  IF r.outcome # "ok"
             THEN [impl |-> r.impl, builds |-> r.builds, call |-> ran]
             ELSE IF IsEmpty(in)
             THEN [impl |-> r.impl, builds |-> r.builds,
                   call |-> [ran EXCEPT !.out = OutputOf(c, in)]]
             ELSE LET d == Dispatch(c, in)
                      bad == \/ d.depth.of = "garbage"
                             \/ (d.class = "FALS" /\ FalsOverrun(r.impl, in))
                  IN  [impl |-> r.impl, builds |-> r.builds,
                       call |-> [ran EXCEPT !.out = OutputOf(c, in),
                                            !.dispatch = d,
                                            !.ub = r.ub \/ bad,
                                            !.outcome =
                                               IF bad /\ u = "crash" THEN "crash"
                                               ELSE "ok"]]

----------------------------------------------------------------------------
(* The facade as a state machine *)

\* RgbdNormals::RgbdNormals: the two CV_Assert of the constructor
CtorAsserts(depth, K_) ==
    (depth = "CV_32F" \/ depth = "CV_64F") /\ (K_.cols = 3 /\ K_.rows = 3)

\* the state after RgbdNormals::RgbdNormals(rows, cols, depth, K, window_size,
\* method): the fields hold the arguments and the handle is 0
FacadeInit(Arguments) ==
    \E c \in Arguments :
        /\ cfg = c
        /\ phase = IF CtorAsserts(c.depth, c.K) THEN "constructed" ELSE "ctor_failed"
        /\ impl = NullImpl
        /\ builds = 0
        /\ changes = 0
        /\ last = [CallNone EXCEPT !.op = "construct",
                     !.outcome = IF CtorAsserts(c.depth, c.K) THEN "ok"
                                 ELSE "precondition"]

\* no RgbdNormals object: the functions below it are used on their own
NoFacade ==
    /\ phase = "none" /\ cfg = [method |-> "none"] /\ impl = NullImpl
    /\ builds = 0 /\ changes = 0 /\ last = CallNone

\* a call of initialize()
Initialize ==
    /\ phase = "constructed"
    /\ \E u \in UBFor(impl, FALSE) :
         LET r == initialize(cfg, impl, builds, u)
         IN  /\ impl' = r.impl
             /\ builds' = r.builds
             /\ phase' = IF r.outcome = "crash" THEN "crashed" ELSE phase
             /\ last' = [CallNone EXCEPT !.op = "initialize", !.initRan = TRUE,
                           !.outcome = r.outcome, !.built = r.built,
                           !.deleted = r.deleted, !.ub = r.ub, !.hit = r.hit,
                           !.tag = r.tag,
                           !.after = IF last.op = "set" /\ last.matched
                                     THEN last.field ELSE "none"]
    /\ UNCHANGED <<cfg, changes, sgn, lm, dp, calls, ix>>

\* a call of operator()(in, normals_out)
Compute ==
    /\ phase = "constructed"
    /\ \E in \in Inputs :
       \E u \in UBFor(impl, cfg.method \in {"LINEMOD", "FALS"}) :
         LET r == compute(cfg, impl, builds, in, u)
         IN  /\ impl' = r.impl
             /\ builds' = r.builds
             /\ phase' = IF r.call.outcome = "crash" THEN "crashed" ELSE phase
             /\ last' = [r.call EXCEPT
                           !.after = IF last.op = "set" /\ last.matched
                                     THEN last.field ELSE "none"]
    /\ UNCHANGED <<cfg, changes, sgn, lm, dp, calls, ix>>

\* whether the handle holds a live estimator built from exactly configuration c
CacheMatches(o, c) == ~o.null /\ ~o.freed /\ OriginOf(o) = c

\* the caller changes one field of the Configuration to another value
SetField(f, v) ==
    /\ phase = "constructed"
    /\ changes < MaxChanges
    /\ cfg[f] # v
    /\ cfg' = [cfg EXCEPT ![f] = v]
    /\ changes' = changes + 1
    /\ last' = [CallNone EXCEPT !.op = "set", !.field = f,
                  !.matched = CacheMatches(impl, cfg)]
    /\ UNCHANGED <<phase, impl, builds, sgn, lm, dp, calls, ix>>

SetRows == \E v \in RowsDom : SetField("rows", v)
SetCols == \E v \in ColsDom : SetField("cols", v)
SetDepth == \E v \in DepthDom : SetField("depth", v)
SetK == \E v \in KDom : SetField("K", v)
SetWindowSize == \E v \in WindowDom : SetField("window_size", v)
SetMethod == \E v \in MethodDom : SetField("method", v)

Next ==
    \/ Initialize
    \/ Compute
    \/ SetRows
    \/ SetCols
    \/ SetDepth
    \/ SetK
    \/ SetWindowSize
    \/ SetMethod

\* the parts of the state that a specification does not use
Idle == [stage |-> "idle"]

Init ==
    /\ FacadeInit(CtorArguments)
    /\ sgn = Idle /\ lm = Idle /\ dp = Idle /\ calls = Idle /\ ix = Idle

Spec == Init /\ [][Next]_vars

\* the facade with a Configuration that is never changed after construction
NextFixed ==
    \/ Initialize
    \/ Compute

InitFixed ==
    /\ FacadeInit(Configurations)
    /\ sgn = Idle /\ lm = Idle /\ dp = Idle /\ calls = Idle /\ ix = Idle

SpecFixed == InitFixed /\ [][NextFixed]_vars

----------------------------------------------------------------------------
(* Claims about the facade *)

IsCall == last.op \in {"initialize", "compute"}

\* C1: when a cache built from the current Configuration exists and one field
\* is then changed to a different valid value, the next initialize() or
\* compute() discards that cache and builds a new estimator, so that the
\* cache's originating Configuration equals the current one in every field.
C1_ChangedFieldRebuilds ==
    (IsCall /\ last.initRan /\ last.after # "none" /\ ValidConfig(cfg))
      => (/\ last.deleted /\ last.built
          /\ ~impl.null /\ ~impl.freed
          /\ OriginOf(impl) = cfg)

\* C1 for every field but cols: the same statement when the changed field is
\* rows, depth, K, window_size or method.
C1_ChangedFieldRebuildsExceptCols ==
    (IsCall /\ last.initRan /\ last.after \notin {"none", "cols"} /\ ValidConfig(cfg))
      => (/\ last.deleted /\ last.built
          /\ ~impl.null /\ ~impl.freed
          /\ OriginOf(impl) = cfg)

\* C2: while a valid Configuration is never changed, the cache is built exactly
\* once: construction builds nothing, the first initialize() or compute() that
\* reaches initialize() builds it, and every later one reuses it.
C2_BuiltOnce ==
    ValidConfig(cfg)
      => (/\ builds <= 1
          /\ (last.op = "construct" => (builds = 0 /\ impl.null))
          /\ (impl.null <=> builds = 0)
          /\ ((IsCall /\ last.initRan)
                => (builds = 1 /\ last.outcome # "precondition"
                    /\ ~impl.null /\ ~impl.freed /\ OriginOf(impl) = cfg)))

\* C2 witness: a second call found the cache of the first one and reused it
C2_Witness ==
    /\ ValidConfig(cfg) /\ builds = 1
    /\ last.op = "compute" /\ last.outcome = "ok"
    /\ last.hit /\ ~last.built
    /\ last.dispatch.class # "none"

\* C7: construction builds no estimator, and a call made with an invalid Configuration (rows <= 0, cols <= 0, a
\* precision other than single/double, a window size outside {1,3,5,7}, an
\* unrecognized method, a K that is not 3x3) fails a precondition: no estimator
\* is built for it and no estimator compute is dispatched.
C7_InvalidConfigurationRejected ==
    /\ (last.op = "construct" => (impl.null /\ builds = 0))
    /\ (IsCall /\ ~ValidConfig(cfg))
         => (/\ last.outcome = "precondition"
             /\ ~last.built
             /\ last.dispatch = NoDispatch)

\* the inputs C8 says compute() accepts
C8_Accepted(method_, in) ==
    /\ in.dims = 2
    /\ \/ (method_ \in {"FALS", "SRI"} /\ in.channels = 3 /\ in.depth \in FloatDepths)
       \/ (method_ = "LINEMOD"
             /\ \/ (in.channels = 3 /\ in.depth \in FloatDepths)
                \/ (in.channels = 1 /\ in.depth \in {"CV_16U", "CV_32F", "CV_64F"}))

\* C8 as stated: compute() lets an input through to initialize() exactly when
\* it is 2-dimensional and has the layout its method takes; on every other
\* input it fails before initialize() runs, and the cache and the build count
\* stay as they were.
C8_AcceptsExactly ==
    [][last'.op = "compute"
         => /\ last'.initRan <=> C8_Accepted(cfg'.method, last'.in)
            /\ ~C8_Accepted(cfg'.method, last'.in)
                 => (/\ last'.outcome = "precondition"
                     /\ impl' = impl /\ builds' = builds)]_vars

\* C8 amended: the same for FALS, LINEMOD and SRI; under any other method_ no
\* input check is made and every 2-dimensional input reaches initialize().
\* Every input that is turned away fails before initialize() runs and leaves
\* the cache and the build count as they were.
C8_AcceptsExactlyAmended ==
    [][last'.op = "compute"
         => /\ last'.initRan <=>
                 (\/ C8_Accepted(cfg'.method, last'.in)
                  \/ (cfg'.method \notin Methods /\ last'.in.dims = 2))
            /\ ~last'.initRan
                 => (/\ last'.outcome = "precondition"
                     /\ impl' = impl /\ builds' = builds)]_vars

\* C8 witness: an input of the wrong layout was turned away while a cache
\* existed
C8_Witness ==
    /\ last.op = "compute" /\ ~last.initRan /\ last.outcome = "precondition"
    /\ last.in.dims = 2 /\ cfg.method \in Methods
    /\ ~impl.null /\ builds = 1

\* C9: when the method is LINEMOD and compute() is given a non-empty
\* 3-channel floating-point array, the depth map handed to the LINEMOD
\* estimator is the third channel of that input, with the input's rows and
\* cols.
C9_LinemodGetsZChannel ==
    (/\ last.op = "compute" /\ cfg.method = "LINEMOD"
     /\ last.in.channels = 3 /\ ~IsEmpty(last.in)
     /\ last.dispatch.class = "LINEMOD")
      => (/\ last.dispatch.depth =
                [of |-> "input", channel |-> 2,
                 rows |-> last.in.rows, cols |-> last.in.cols]
          /\ ~last.ub)

\* C10: whenever compute() returns normally, its output has the configured
\* rows and cols, 3 channels and the working precision.
C10_OutputHasConfiguredShape ==
    (last.op = "compute" /\ last.outcome = "ok" /\ ~last.ub)
      => last.out = [rows |-> cfg.rows, cols |-> cfg.cols, channels |-> 3,
                     depth |-> cfg.depth]

----------------------------------------------------------------------------
(* signNormal on its own: both overloads applied to one vector, and then    *)
(* applied again to what they returned                                      *)

MaxCoord == 2

SignInputs == {<<a, b, c>> : a \in -MaxCoord..MaxCoord,
                             b \in -MaxCoord..MaxCoord,
                             c \in -MaxCoord..MaxCoord}

InitSign ==
    /\ NoFacade
    /\ lm = Idle /\ dp = Idle /\ calls = Idle /\ ix = Idle
    /\ \E v \in SignInputs :
         sgn = [stage |-> "input", in |-> v,
                vec |-> RFromInts(v), abc |-> RFromInts(v),
                vec1 |-> RFromInts(v), abc1 |-> RFromInts(v)]

\* both overloads on the input
SignOnce ==
    /\ sgn.stage = "input"
    /\ sgn' = [sgn EXCEPT !.stage = "signed",
                          !.vec = signNormalVec(RFromInts(sgn.in)),
                          !.abc = signNormalAbc(RFromInts(sgn.in)),
                          !.vec1 = signNormalVec(RFromInts(sgn.in)),
                          !.abc1 = signNormalAbc(RFromInts(sgn.in))]
    /\ UNCHANGED <<phase, cfg, impl, builds, changes, last, lm, dp, calls, ix>>

\* both overloads on their own results
SignAgain ==
    /\ sgn.stage = "signed"
    /\ sgn' = [sgn EXCEPT !.stage = "resigned",
                          !.vec = signNormalVec(sgn.vec1),
                          !.abc = signNormalAbc(sgn.abc1)]
    /\ UNCHANGED <<phase, cfg, impl, builds, changes, last, lm, dp, calls, ix>>

NextSign == SignOnce \/ SignAgain

SpecSign == InitSign /\ [][NextSign]_vars

\* v/|v| for a vector of integers v, negated when negate
Normalised(v, negate) ==
    RVec(IF negate THEN ZVecNeg(ZVec(v)) ELSE ZVec(v), ZDot(ZVec(v), ZVec(v)))

\* C5: for every non-zero input vector the two overloads of signNormal
\* return the same vector; it is the input divided by its norm, negated
\* exactly when the input's z is positive, so it is a unit vector with
\* z <= 0; and applying either overload to that result returns it unchanged.
C5_SignNormalOverloadsAgree ==
    (sgn.stage \in {"signed", "resigned"} /\ sgn.in # <<0, 0, 0>>) =>
        /\ RVecEq(sgn.vec1, sgn.abc1)
        /\ RVecEq(sgn.vec1, Normalised(sgn.in, sgn.in[3] > 0))
        /\ RVecIsUnit(sgn.vec1) /\ RVecIsUnit(sgn.abc1)
        /\ ZSign(sgn.vec1.num[3]) <= 0
        /\ sgn.stage = "resigned" =>
             /\ RVecEq(sgn.vec, sgn.vec1)
             /\ RVecEq(sgn.abc, sgn.abc1)

\* a vector with positive z was flipped and then signed again
C5_Witness ==
    /\ sgn.stage = "resigned"
    /\ sgn.in[3] > 0 /\ sgn.in[1] # 0
    /\ RVecEq(sgn.vec, Normalised(sgn.in, TRUE))


----------------------------------------------------------------------------
(* LINEMOD<T>::computeImpl on one depth map                                 *)

r == 5
sample_step == r
square_size == ((2 * r) \div sample_step) + 1
difference_threshold == 50

\* offsets[], offsets_x[], offsets_y[], offsets_x_x[], offsets_x_y[] and
\* offsets_y_y[] of an estimator of cols_ columns, in the order of `index`
Offsets(cols_) ==
    [index \in 1..(square_size * square_size) |->
        LET j == -r + ((index - 1) \div square_size) * sample_step
            i == -r + ((index - 1) % square_size) * sample_step
        IN  [offsets |-> j * cols_ + i,
             offsets_x |-> i, offsets_y |-> j,
             offsets_x_x |-> i * i, offsets_x_y |-> i * j,
             offsets_y_y |-> j * j]]

\* K_inv "by hand". Its entries are kept over the one denominator
\* K(0,0) * K(1,1): K_inv(i,j) = e_ij / den, K_inv(2,2) = den / den.
K_invOf(K) ==
    [den |-> K[1] * K[5],
     e00 |-> K[5],
     e01 |-> -K[2],
     e02 |-> K[2] * K[6] - K[3] * K[5],
     e11 |-> K[1],
     e12 |-> -K[6] * K[1]]

\* multiply_by_K_inv with K_inv(1,1) * b left out of the second component
multiply_by_K_inv_WithoutK11(K_inv, a, b, c) ==
    <<ZAdd(ZAdd(ZMul(Z(K_inv.e00), a), ZMul(Z(K_inv.e01), b)),
           ZMul(Z(K_inv.e02), c)),
      ZMul(Z(K_inv.e12), c),
      ZMul(Z(K_inv.den), c)>>

\* multiply_by_K_inv: the numerators of K_inv * (a, b, c) over K_inv.den
multiply_by_K_inv(K_inv, a, b, c) ==
    <<ZAdd(ZAdd(ZMul(Z(K_inv.e00), a), ZMul(Z(K_inv.e01), b)),
           ZMul(Z(K_inv.e02), c)),
      ZAdd(ZMul(Z(K_inv.e11), b), ZMul(Z(K_inv.e12), c)),
      ZMul(Z(K_inv.den), c)>>

\* a depth map: base + gx * x + gy * y, one pixel raised by SpikeHeight and
\* one pixel without a measurement (NaN)
NoPixel == <<-1, -1>>
SpikeHeight == 2 * difference_threshold
Finite(v) == [nan |-> FALSE, v |-> v]
NaNDepth == [nan |-> TRUE, v |-> 0]

DepthAt(map, y, x) ==
    IF <<y, x>> = map.hole THEN NaNDepth
    ELSE Finite(map.base + map.gx * x + map.gy * y
                  + IF <<y, x>> = map.spike THEN SpikeHeight ELSE 0)

\* the element `index` places after the first one of the depth map's buffer
DepthAtIndex(map, index) == DepthAt(map, index \div map.cols, index % map.cols)

Abs(n) == IF n < 0 THEN -n ELSE n

\* the accumulation loop over the samples i..square_size^2 around the
\* element at p_line whose value is d
RECURSIVE Accumulate(_, _, _, _, _, _)
Accumulate(map, offs, p_line, d, i, acc) ==
    IF i > Len(offs) THEN acc
    ELSE LET s == DepthAtIndex(map, p_line + offs[i].offsets)
             nan == s.nan \/ d.nan
             delta == s.v - d.v
         IN  IF ~nan /\ Abs(delta) > difference_threshold
             THEN Accumulate(map, offs, p_line, d, i + 1, acc)
             ELSE Accumulate(map, offs, p_line, d, i + 1,
                    [accepted |-> acc.accepted + 1,
                     A0 |-> acc.A0 + offs[i].offsets_x_x,
                     A1 |-> acc.A1 + offs[i].offsets_x_y,
                     A3 |-> acc.A3 + offs[i].offsets_y_y,
                     bnan |-> acc.bnan \/ nan,
                     b0 |-> acc.b0 + offs[i].offsets_x * (IF nan THEN 0 ELSE delta),
                     b1 |-> acc.b1 + offs[i].offsets_y * (IF nan THEN 0 ELSE delta)])

\* the body of the loops for the pixel (y, x)
Pixel(map, cols_, K, y, x) ==
    LET p_line == y * map.cols + x
        d == DepthAtIndex(map, p_line)
        acc == Accumulate(map, Offsets(cols_), p_line, d, 1,
                 [accepted |-> 0, A0 |-> 0, A1 |-> 0, A3 |-> 0,
                  bnan |-> FALSE, b0 |-> 0, b1 |-> 0])
        det == acc.A0 * acc.A3 - acc.A1 * acc.A1
        dx == acc.A3 * acc.b0 - acc.A1 * acc.b1
        dy == (-acc.A1) * acc.b0 + acc.A0 * acc.b1
        nan == d.nan \/ acc.bnan
        K_inv == K_invOf(K)
        X1_minus_X == multiply_by_K_inv(K_inv, Z(d.v * det + (x + 1) * dx),
                                        Z(y * dx), Z(dx))
        X2_minus_X == multiply_by_K_inv(K_inv, Z(x * dy),
                                        Z(d.v * det + (y + 1) * dy), Z(dy))
        den2 == ZMul(Z(K_inv.den), Z(K_inv.den))
        nor == IF nan THEN NaNVec
               ELSE RVec(ZCross(X1_minus_X, X2_minus_X), ZMul(den2, den2))
    IN  [y |-> y, x |-> x, d |-> d, accepted |-> acc.accepted,
         A |-> <<acc.A0, acc.A1, 0, acc.A3>>, nan |-> nan,
         b |-> <<acc.b0, acc.b1>>, det |-> det, dx |-> dx, dy |-> dy,
         nor |-> nor, normal |-> signNormalVec(nor)]


\* sizes and contents of the depth maps LINEMOD is run on
MinSide == 2 * r + 2
MaxSide == 13
Sides == MinSide..MaxSide
LinemodKs == {<<1, 0, 0, 0, 1, 0, 0, 0, 1>>,
              <<2, 0, 6, 0, 3, 6, 0, 0, 1>>,
              <<2, 1, 6, 0, 3, 6, 0, 0, 1>>}
DepthMaps(rows, cols) ==
    [rows : {rows}, cols : {cols},
     base : {0, 1, 1000}, gx : {0, 2, 20}, gy : {0, 3},
     spike : {NoPixel, <<r, r>>, <<0, 0>>, <<2 * r, r>>},
     hole : {NoPixel, <<0, r>>}]

NoResult == [y |-> -1, x |-> -1]

InitLinemod ==
    /\ NoFacade
    /\ sgn = Idle /\ dp = Idle /\ calls = Idle /\ ix = Idle
    /\ \E rows \in Sides, cols \in Sides, K \in LinemodKs :
         \E map \in DepthMaps(rows, cols) :
            lm = [stage |-> "entry", rows_ |-> rows, cols_ |-> cols, K_ |-> K,
                  depth |-> map, y |-> 0, x |-> 0, written |-> {},
                  px |-> NoResult]

\* where the loops stand after the pixel (y, x), or before the first one
LoopAt(o, y, x) ==
    IF y < o.rows_ - r - 1 /\ x < o.cols_ - r - 1
    THEN [o EXCEPT !.stage = "loop", !.y = y, !.x = x]
    ELSE IF y + 1 < o.rows_ - r - 1 /\ r < o.cols_ - r - 1
    THEN [o EXCEPT !.stage = "loop", !.y = y + 1, !.x = r]
    ELSE [o EXCEPT !.stage = "done"]

\* the set-up before the loops
LinemodEnter ==
    /\ lm.stage = "entry"
    /\ lm' = LoopAt(lm, r, r)
    /\ UNCHANGED <<phase, cfg, impl, builds, changes, last, sgn, dp, calls, ix>>

\* one pass through the body of the inner loop
LinemodPixel ==
    /\ lm.stage = "loop"
    /\ LET px == Pixel(lm.depth, lm.cols_, lm.K_, lm.y, lm.x)
       IN  lm' = LoopAt([lm EXCEPT !.px = px,
                                   !.written = @ \cup {<<lm.y, lm.x>>}],
                        lm.y, lm.x + 1)
    /\ UNCHANGED <<phase, cfg, impl, builds, changes, last, sgn, dp, calls, ix>>

NextLinemod == LinemodEnter \/ LinemodPixel

SpecLinemod == InitLinemod /\ [][NextLinemod]_vars

\* LINEMOD has just processed a pixel
Processed == lm.stage \in {"loop", "done"} /\ lm.px # NoResult

\* C4, for LINEMOD at the pixels it processes: when the depth at the pixel is
\* finite and positive, the raw vector handed to signNormal is not the zero
\* vector and the normal written at the pixel is a unit vector with z <= 0.
C4_FinitePixelsGetUnitNormals ==
    (Processed /\ ~lm.px.d.nan /\ lm.px.d.v > 0 /\ lm.depth.hole = NoPixel)
      => (/\ ~lm.px.nor.nan
          /\ ~ZVecIsZero(lm.px.nor.num)
          /\ RVecIsUnit(lm.px.normal)
          /\ ZSign(lm.px.normal.num[3]) <= 0)

\* a depth map of one constant positive depth
ConstantDepth(map) ==
    /\ map.base > 0 /\ map.gx = 0 /\ map.gy = 0
    /\ map.spike = NoPixel /\ map.hole = NoPixel

\* C6: under a zero-skew K with positive fx and fy and a depth map of one
\* constant positive depth, at every pixel LINEMOD processes all nine samples
\* are accepted, the gradient (dx, dy) is (0, 0), the raw cross product has
\* x = y = 0 and z > 0, and the normal written is (0, 0, -1).
C6_ConstantDepthFacesCamera ==
    (/\ Processed /\ ConstantDepth(lm.depth)
     /\ lm.K_[2] = 0 /\ lm.K_[1] > 0 /\ lm.K_[5] > 0)
      => (/\ lm.px.accepted = square_size * square_size
          /\ lm.px.dx = 0 /\ lm.px.dy = 0
          /\ ~lm.px.nor.nan
          /\ ZSign(lm.px.nor.num[1]) = 0 /\ ZSign(lm.px.nor.num[2]) = 0
          /\ ZSign(lm.px.nor.num[3]) > 0
          /\ RVecEq(lm.px.normal, RFromInts(<<0, 0, -1>>)))

\* C6 witness: the last pixel of a constant map of depth 1000 under a K whose
\* principal point is not the origin got (0, 0, -1)
C6_Witness ==
    /\ lm.stage = "done" /\ lm.px # NoResult /\ ConstantDepth(lm.depth)
    /\ lm.depth.base = 1000
    /\ lm.K_[2] = 0 /\ lm.K_[3] > 0 /\ lm.K_[1] # lm.K_[5]
    /\ Cardinality(lm.written) > 1
    /\ RVecEq(lm.px.normal, RFromInts(<<0, 0, -1>>))

----------------------------------------------------------------------------
(* FALS<T>::compute on one radius image. What the arithmetic on finite      *)
(* radii produces is not followed here: an element is NaN, or it is finite, *)
(* and B is kept as the first loop leaves it, before the box filter.        *)

MaxNaNs == 2
FalsShapes == {[rows |-> 2, cols |-> 2], [rows |-> 2, cols |-> 3],
               [rows |-> 3, cols |-> 3]}
Elements(shape) == 0..(shape.rows * shape.cols - 1)
Floats == {"NaN", "finite"}

\* an array of the given shape whose elements are all v
Filled(shape, v) == [rows |-> shape.rows, cols |-> shape.cols,
                     at |-> [k \in Elements(shape) |-> v]]

\* the radius images of a shape: NaN at up to MaxNaNs elements
RadiusImages(shape) ==
    {[rows |-> shape.rows, cols |-> shape.cols,
      at |-> [k \in Elements(shape) |-> IF k \in nans THEN "NaN" ELSE "finite"]] :
        nans \in {n \in SUBSET Elements(shape) : Cardinality(n) <= MaxNaNs}}

InitFals ==
    /\ NoFacade
    /\ sgn = Idle /\ lm = Idle /\ calls = Idle /\ ix = Idle
    /\ \E est \in FalsShapes, in \in FalsShapes, fresh \in Floats :
         \E radius \in RadiusImages(in) :
            dp = [stage |-> "entry", rows_ |-> est.rows, cols_ |-> est.cols,
                  r |-> radius,
                  \* `normals` as operator() allocated it: the shape of the
                  \* input, its elements not yet written
                  normals |-> Filled(in, fresh),
                  B |-> Filled(est, "unset"),
                  row_r |-> 0, overrun |-> FALSE]

\* row_r_end = row_r + rows_ * cols_
row_r_end(o) == o.rows_ * o.cols_

\* the element of array a that a pointer k places after its first one
\* reads: past the end of the buffer it may be anything
Reads(a, k) == IF k \in DOMAIN a.at THEN {a.at[k]} ELSE Floats

\* what the body of the second loop writes for the radius v: the radius
\* itself in the three channels when it is NaN, a signed normal otherwise
FalsNormal(v) == IF v = "NaN" THEN "NaN" ELSE "finite"

\* what the body of the first loop writes to B for the element k of r: the
\* zero vector for a NaN radius, V / r otherwise
FalsB(radius, k) ==
    IF k \notin DOMAIN radius.at THEN "unknown"
    ELSE IF radius.at[k] = "NaN" THEN "zero" ELSE "finite"

\* the first loop and the box filter
FalsComputeB ==
    /\ dp.stage = "entry"
    /\ \E u \in (IF row_r_end(dp) > Cardinality(DOMAIN dp.r.at)
                 THEN UBChoices ELSE {"true"}) :
         dp' = IF u = "crash" THEN [dp EXCEPT !.stage = "crashed", !.overrun = TRUE]
               ELSE [dp EXCEPT !.stage = "normals",
                               !.B.at = [k \in DOMAIN dp.B.at |-> FalsB(dp.r, k)],
                               !.overrun = row_r_end(dp) > Cardinality(DOMAIN dp.r.at)]
    /\ UNCHANGED <<phase, cfg, impl, builds, changes, last, sgn, lm, calls, ix>>

\* one pass through the body of the second loop
FalsPixel ==
    /\ dp.stage = "normals"
    /\ IF dp.row_r = row_r_end(dp)
       THEN dp' = [dp EXCEPT !.stage = "done"]
       ELSE \E v \in Reads(dp.r, dp.row_r) :
              dp' = [dp EXCEPT
                       !.row_r = @ + 1,
                       !.normals.at =
                          IF dp.row_r \in DOMAIN dp.normals.at
                          THEN [@ EXCEPT ![dp.row_r] = FalsNormal(v)]
                          ELSE @]
    /\ UNCHANGED <<phase, cfg, impl, builds, changes, last, sgn, lm, calls, ix>>

NextFals == FalsComputeB \/ FalsPixel

SpecFals == InitFals /\ [][NextFals]_vars

\* C3, for FALS: when compute has returned, every element of the output whose
\* input radius is the sentinel (NaN) is the sentinel in all three channels.
C3_SentinelPropagates ==
    dp.stage = "done"
      => \A k \in DOMAIN dp.r.at :
            dp.r.at[k] = "NaN" => dp.normals.at[k] = "NaN"

----------------------------------------------------------------------------
(* The pixels LINEMOD writes *)

\* the pixels at least r away from each border of a rows x cols image
Interior(rows, cols) ==
    {<<y, x>> : y \in r..(rows - 1 - r), x \in r..(cols - 1 - r)}

\* C11: when LINEMOD's compute has returned, the set of pixels it wrote is
\* exactly the set of pixels (x, y) with 5 <= x <= cols-1-5 and
\* 5 <= y <= rows-1-5; every pixel of the border band is unwritten.
C11_WritesExactlyInterior ==
    lm.stage = "done" => lm.written = Interior(lm.rows_, lm.cols_)

----------------------------------------------------------------------------
(* The gradient LINEMOD solves for *)

\* rationals n / d over the integers, d # 0
Q(n, d) == [n |-> n, d |-> d]
QInt(k) == Q(Z(k), Z(1))
QAdd(a, b) == Q(ZAdd(ZMul(a.n, b.d), ZMul(b.n, a.d)), ZMul(a.d, b.d))
QSub(a, b) == Q(ZSub(ZMul(a.n, b.d), ZMul(b.n, a.d)), ZMul(a.d, b.d))
QMul(a, b) == Q(ZMul(a.n, b.n), ZMul(a.d, b.d))

\* K_inv * (a, b, c) * s for rationals a, b, c, s
QTimesK_inv(K, a, b, c, s) ==
    LET K_inv == K_invOf(K)
        e(k) == Q(Z(k), Z(K_inv.den))
    IN  <<QMul(s, QAdd(QAdd(QMul(e(K_inv.e00), a), QMul(e(K_inv.e01), b)),
                       QMul(e(K_inv.e02), c))),
          QMul(s, QAdd(QMul(e(K_inv.e11), b), QMul(e(K_inv.e12), c))),
          QMul(s, c)>>

QVecSub(v, w) == <<QSub(v[1], w[1]), QSub(v[2], w[2]), QSub(v[3], w[3])>>

\* the integer vector v * |d1 * d2 * d3| for a vector v of rationals
QVecDirection(v) ==
    LET scaled == <<ZMul(v[1].n, ZMul(v[2].d, v[3].d)),
                    ZMul(v[2].n, ZMul(v[1].d, v[3].d)),
                    ZMul(v[3].n, ZMul(v[1].d, v[2].d))>>
        D == ZMul(v[1].d, ZMul(v[2].d, v[3].d))
    IN  IF ZSign(D) < 0 THEN ZVecNeg(scaled) ELSE scaled

\* (X1 - X) x (X2 - X) for the points X, X1, X2 of the surface at (x, y),
\* (x + 1, y), (x, y + 1) whose depths are d, d + gx, d + gy
SurfaceCross(K, x, y, d, gx, gy) ==
    LET X == QTimesK_inv(K, QInt(x), QInt(y), QInt(1), d)
        X1 == QTimesK_inv(K, QInt(x + 1), QInt(y), QInt(1), QAdd(d, gx))
        X2 == QTimesK_inv(K, QInt(x), QInt(y + 1), QInt(1), QAdd(d, gy))
        u == QVecSub(X1, X)
        v == QVecSub(X2, X)
    IN  <<QSub(QMul(u[2], v[3]), QMul(u[3], v[2])),
          QSub(QMul(u[3], v[1]), QMul(u[1], v[3])),
          QSub(QMul(u[1], v[2]), QMul(u[2], v[1]))>>

\* integer vectors u and w point the same way: w is u times a positive number
SameDirection(u, w) ==
    IF ZVecIsZero(u) \/ ZVecIsZero(w) THEN ZVecIsZero(u) /\ ZVecIsZero(w)
    ELSE ZVecIsZero(ZCross(u, w)) /\ ZSign(ZDot(u, w)) > 0

\* the gradient of the pixel px is det times the solution of A g = b
SolvesNormalEquations(px) ==
    /\ px.A[1] * px.dx + px.A[2] * px.dy = px.det * px.b[1]
    /\ px.A[2] * px.dx + px.A[4] * px.dy = px.det * px.b[2]

\* the cross product of the pixel px points the way of the one computed from
\* the gradient (dx / det, dy / det)
DirectionOfSolvedGradient(K, px) ==
    /\ px.det # 0
    /\ SameDirection(px.nor.num,
         QVecDirection(SurfaceCross(K, px.x, px.y, QInt(px.d.v),
                                    Q(Z(px.dx), Z(px.det)),
                                    Q(Z(px.dy), Z(px.det)))))

\* C12: at every pixel LINEMOD processes (on finite depths), the gradient
\* (dx, dy) it computes satisfies A * (dx, dy) = det(A) * b for the sums A, b
\* over the accepted samples, and its cross product has the direction of the
\* cross product obtained from the gradient divided by det(A).
C12_GradientIsScaledSolution ==
    (Processed /\ ~lm.px.nan)
      => (/\ SolvesNormalEquations(lm.px)
          /\ DirectionOfSolvedGradient(lm.K_, lm.px))

\* C12 where the system is not singular: the same at the pixels with
\* det(A) # 0
C12_GradientIsScaledSolutionNonSingular ==
    (Processed /\ ~lm.px.nan /\ lm.px.det # 0)
      => (/\ SolvesNormalEquations(lm.px)
          /\ DirectionOfSolvedGradient(lm.K_, lm.px))

\* a pixel with a non-zero gradient, a rejected sample and a skewed K
C12_NonSingularReached ==
    /\ Processed /\ ~lm.px.nan /\ lm.px.det # 0
    /\ lm.px.dx # 0 /\ lm.px.dy # 0 /\ lm.px.A[2] # 0
    /\ lm.K_[2] # 0 /\ ~ZVecIsZero(lm.px.nor.num)

----------------------------------------------------------------------------
(* compute() calls of several threads on one facade. The Configuration does *)
(* not change; each call goes through operator() one shared access at a     *)
(* time: the read of rgbd_normals_impl_ in initialize(), validate on the    *)
(* object, delete_normals_impl, initialize_normals_impl, and the estimator  *)
(* compute that reads the cache.                                            *)

NThreads == 2
MaxBuilds == 3
Threads == 1..NThreads

ConcurrentConfigs ==
    {[rows |-> 2, cols |-> 6, depth |-> "CV_32F", K |-> KA, window_size |-> 3,
      method |-> m] : m \in {"FALS", "LINEMOD"}}
ConcurrentInputs == {Array(2, 6, 3, "CV_32F"), Array(2, 6, 1, "CV_16U")}

\* the caches a facade of Configuration c can hold when the calls start:
\* none, the one built from c, one built before K or cols was changed
CachesBefore(c) ==
    {NullImpl,
     NewImpl(c.rows, c.cols, c.window_size, c.depth, c.K, c.method),
     NewImpl(c.rows, c.cols, c.window_size, c.depth, KB, c.method),
     NewImpl(c.rows, c.cols + 1, c.window_size, c.depth, c.K, c.method)}

NoCall == [pc |-> "idle", in |-> NoInput, stable |-> FALSE, ub |-> FALSE]

\* a live cache whose originating Configuration is the current one
Stable == ~impl.null /\ ~impl.freed /\ OriginOf(impl) = cfg

InitConcurrent ==
    /\ phase = "constructed"
    /\ cfg \in ConcurrentConfigs
    /\ impl \in CachesBefore(cfg)
    /\ builds = IF impl.null THEN 0 ELSE 1
    /\ changes = 0 /\ last = CallNone
    /\ sgn = Idle /\ lm = Idle /\ dp = Idle /\ ix = Idle
    /\ calls = [t \in Threads |-> NoCall]

Others == <<cfg, changes, last, sgn, lm, dp, ix>>

\* operator() up to the call of initialize(): the CV_Asserts on the input
CallBegin(t) ==
    /\ phase = "constructed" /\ calls[t].pc = "idle"
    /\ \E in \in ConcurrentInputs :
         calls' = [calls EXCEPT ![t] =
                     [pc |-> IF in.dims = 2 /\ InputAsserts(cfg.method, in)
                             THEN "initialize" ELSE "failed",
                      in |-> in, ub |-> FALSE,
                      \* the cache is stable and so it was for every call
                      \* still in progress
                      stable |-> Stable /\ \A o \in Threads \ {t} :
                                    calls[o].pc = "idle" \/ calls[o].stable]]
    /\ UNCHANGED <<phase, impl, builds>> /\ UNCHANGED Others

\* initialize(): the test rgbd_normals_impl_ == 0
CallInitialize(t) ==
    /\ phase = "constructed" /\ calls[t].pc = "initialize"
    /\ calls' = [calls EXCEPT ![t].pc = IF impl.null THEN "build" ELSE "validate"]
    /\ UNCHANGED <<phase, impl, builds>> /\ UNCHANGED Others

\* initialize(): validate on the object behind the handle
CallValidate(t) ==
    /\ phase = "constructed" /\ calls[t].pc = "validate"
    /\ \E u \in UBFor(impl, FALSE) :
         LET ok == IF impl.freed THEN u = "true"
                   ELSE validate(impl, cfg.rows, cfg.cols, cfg.depth, cfg.K,
                                 cfg.window_size, cfg.method)
         IN  /\ phase' = IF u = "crash" THEN "crashed" ELSE phase
             /\ calls' = [calls EXCEPT
                            ![t].pc = IF u = "crash" THEN "failed"
                                      ELSE IF ok THEN "dispatch" ELSE "delete",
                            ![t].ub = @ \/ impl.freed]
    /\ UNCHANGED <<impl, builds>> /\ UNCHANGED Others

\* initialize(): delete_normals_impl on the cache found invalid
CallDelete(t) ==
    /\ phase = "constructed" /\ calls[t].pc = "delete"
    /\ impl' = delete_normals_impl(impl, cfg.method, cfg.depth)
    /\ calls' = [calls EXCEPT ![t].pc = "build", ![t].ub = @ \/ impl.freed]
    /\ UNCHANGED <<phase, builds>> /\ UNCHANGED Others

\* initialize(): initialize_normals_impl
CallBuild(t) ==
    /\ phase = "constructed" /\ calls[t].pc = "build"
    /\ builds < MaxBuilds
    /\ LET res == initialize_normals_impl(cfg, impl, builds)
       IN  /\ impl' = res.impl
           /\ builds' = res.builds
           /\ calls' = [calls EXCEPT ![t].pc = IF res.outcome = "ok"
                                               THEN "dispatch" ELSE "failed"]
    /\ UNCHANGED phase /\ UNCHANGED Others

\* operator() after initialize(): the output is allocated and the estimator
\* behind the handle computes, reading its cache
CallDispatch(t) ==
    /\ phase = "constructed" /\ calls[t].pc = "dispatch"
    /\ LET in == calls[t].in
           d == Dispatch(cfg, in)
           bad == /\ ~IsEmpty(in)
                  /\ \/ d.depth.of = "garbage"
                     \/ (d.class = "FALS" /\ FalsOverrun(impl, in))
                     \/ impl.freed
       IN  \E u \in (IF bad THEN UBChoices ELSE {"true"}) :
             /\ phase' = IF u = "crash" THEN "crashed" ELSE phase
             /\ calls' = [calls EXCEPT
                            ![t].pc = IF u = "crash" THEN "failed" ELSE "done",
                            ![t].ub = @ \/ bad]
    /\ UNCHANGED <<impl, builds>> /\ UNCHANGED Others

\* the call returns or throws, and the thread may call again
CallReturn(t) ==
    /\ phase = "constructed" /\ calls[t].pc \in {"done", "failed"}
    /\ calls' = [calls EXCEPT ![t] = NoCall]
    /\ UNCHANGED <<phase, impl, builds>> /\ UNCHANGED Others

NextConcurrent ==
    \E t \in Threads :
        \/ CallBegin(t)
        \/ CallInitialize(t)
        \/ CallValidate(t)
        \/ CallDelete(t)
        \/ CallBuild(t)
        \/ CallDispatch(t)
        \/ CallReturn(t)

SpecConcurrent == InitConcurrent /\ [][NextConcurrent]_vars

\* every call in progress began after the cache had become stable
CallsBeganStable == \A t \in Threads : calls[t].pc # "idle" => calls[t].stable

\* C13: once a cache exists whose originating Configuration is the current
\* one, no step of any compute() call begun since then, in any interleaving,
\* writes the cache or the handle: the cache is not rebuilt, not destroyed,
\* and is the same object with the same contents after the step.
C13_ConcurrentComputeDoesNotWriteCache ==
    [][(Stable /\ CallsBeganStable)
         => (impl' = impl /\ builds' = builds /\ Stable')]_vars

\* C13 witness: two calls that began on a stable cache are both in the
\* estimator's compute, and the cache is still the one built once
C13_Witness ==
    /\ Stable /\ builds = 1
    /\ \A t \in Threads : calls[t].pc = "dispatch" /\ calls[t].stable

----------------------------------------------------------------------------
(* The facade with its destructor *)

\* RgbdNormals::~RgbdNormals: delete_normals_impl with the current method_ and
\* depth_. u resolves the undefined behaviour of deleting an object that was
\* deleted before.
Destroy ==
    /\ phase = "constructed"
    /\ \E u \in UBFor(impl, FALSE) :
         /\ phase' = IF ~impl.null /\ impl.freed /\ cfg.method \in Methods
                        /\ u = "crash"
                     THEN "crashed" ELSE "destroyed"
         /\ impl' = delete_normals_impl(impl, cfg.method, cfg.depth)
         /\ last' = [CallNone EXCEPT !.op = "destroy",
                       !.deleted = ~impl.null /\ cfg.method \in Methods,
                       !.ub = ~impl.null /\ impl.freed /\ cfg.method \in Methods,
                       !.tag = IF impl.null THEN <<"none", "none">>
                               ELSE DeleteTag(cfg.method, cfg.depth)]
    /\ UNCHANGED <<cfg, builds, changes, sgn, lm, dp, calls, ix>>

NextLifetime ==
    \/ Next
    \/ Destroy

SpecLifetime == Init /\ [][NextLifetime]_vars

\* the type the object behind handle o was constructed as
ConstructedTag(o) == <<o.class, o.T>>

\* C14: whenever the facade casts the handle to a concrete estimator type, to
\* delete it (in initialize() before a rebuild, or in the destructor) or to
\* dispatch a compute to it, the (method, precision) pair that picks the type
\* is the pair the object behind the handle was constructed with.
C14_DowncastTagMatchesConstruction ==
    [][/\ last'.deleted => last'.tag = ConstructedTag(impl)
       /\ last'.dispatch.class # "none" =>
            <<last'.dispatch.class, last'.dispatch.T>> = ConstructedTag(impl')]_vars

\* C15: when initialize() (called directly or from operator()) finds the cache
\* invalid and the rebuild fails a precondition, the handle afterwards is null
\* or points to an estimator that has not been destroyed.
C15_FailedRebuildLeavesNoDanglingHandle ==
    [][(last'.op \in {"initialize", "compute"} /\ last'.initRan
          /\ last'.outcome = "precondition" /\ ~impl.null)
         => (impl'.null \/ ~impl'.freed)]_vars


----------------------------------------------------------------------------
(* The indices an estimator uses on an input of a size of its own *)

\* an estimator built for rows_ x cols_ and the size of the input that
\* operator() hands to it; no assertion of operator() compares the two
IndexCases ==
    {[method |-> "FALS", rows_ |-> e.rows, cols_ |-> e.cols,
      rows |-> i.rows, cols |-> i.cols] : e \in FalsShapes, i \in FalsShapes}
      \cup {[method |-> "LINEMOD", rows_ |-> a, cols_ |-> b,
             rows |-> c, cols |-> d] : a \in Sides, b \in Sides,
                                       c \in Sides, d \in Sides}

\* the buffers of a call: the input (three channels for FALS, from which the
\* radius image of the same size is computed; a depth map for LINEMOD) and
\* the output that operator() creates with the size of the input
InitIndex ==
    /\ NoFacade
    /\ sgn = Idle /\ lm = Idle /\ dp = Idle /\ calls = Idle
    /\ \E c \in IndexCases :
         LET in == Array(c.rows, c.cols,
                         IF c.method = "FALS" THEN 3 ELSE 1, "CV_32F")
         IN  ix = [stage |-> "entry", method |-> c.method,
                   rows_ |-> c.rows_, cols_ |-> c.cols_,
                   in |-> in, out |-> OutputOf([depth |-> "CV_32F"], in),
                   y |-> 0, x |-> 0, pass |-> 0, k |-> 0,
                   reads |-> {}, writes |-> {}]

\* whether element `index` lies inside the buffer of array a
Inside(a, index) == 0 <= index /\ index < a.rows * a.cols

\* the elements of the input that the body of LINEMOD's inner loop reads at
\* (y, x): p_line[0] and p_line[offsets[i]], where p_line is depth.ptr(y, r)
\* advanced x - r times
LinemodReads(o) ==
    LET p_line == o.y * o.in.cols + o.x
        offs == Offsets(o.cols_)
    IN  {p_line} \cup {p_line + offs[i].offsets : i \in DOMAIN offs}

\* the element of the output it writes: normals.ptr<Vec3T>(y, r) advanced
\* x - r times
LinemodWrites(o) == {o.y * o.out.cols + o.x}

\* the choices of a step that uses the given indices: one, unless an index
\* lies outside its buffer
IndexChoices(o, reads, writes) ==
    IF (\A k \in reads : Inside(o.in, k)) /\ (\A k \in writes : Inside(o.out, k))
    THEN {"true"} ELSE UBChoices

\* the code before the loops
IndexEnter ==
    /\ ix.stage = "entry"
    /\ ix' = IF ix.method = "LINEMOD" THEN LoopAt(ix, r, r)
             ELSE [ix EXCEPT !.stage = "loop", !.pass = 1]
    /\ UNCHANGED <<phase, cfg, impl, builds, changes, last, sgn, lm, dp, calls>>

\* one pass through the body of LINEMOD's inner loop
IndexLinemodPixel ==
    /\ ix.stage = "loop" /\ ix.method = "LINEMOD"
    /\ LET used == [ix EXCEPT !.reads = LinemodReads(ix),
                              !.writes = LinemodWrites(ix)]
       IN  \E u \in IndexChoices(ix, used.reads, used.writes) :
              ix' = IF u = "crash" THEN [used EXCEPT !.stage = "crashed"]
                    ELSE LoopAt(used, ix.y, ix.x + 1)
    /\ UNCHANGED <<phase, cfg, impl, builds, changes, last, sgn, lm, dp, calls>>

\* one pass through the body of one of the two loops of FALS<T>::compute, or
\* the end of the loop: both read r at row_r, the second writes the output at
\* the same index (the first writes B, which has the estimator's own size)
IndexFalsElement ==
    /\ ix.stage = "loop" /\ ix.method = "FALS"
    /\ IF ix.k = row_r_end(ix)
       THEN ix' = IF ix.pass = 1
                  THEN [ix EXCEPT !.pass = 2, !.k = 0, !.reads = {}, !.writes = {}]
                  ELSE [ix EXCEPT !.stage = "done", !.reads = {}, !.writes = {}]
       ELSE LET used == [ix EXCEPT !.reads = {ix.k},
                                   !.writes = IF ix.pass = 2 THEN {ix.k} ELSE {}]
            IN  \E u \in IndexChoices(ix, used.reads, used.writes) :
                   ix' = IF u = "crash" THEN [used EXCEPT !.stage = "crashed"]
                         ELSE [used EXCEPT !.k = @ + 1]
    /\ UNCHANGED <<phase, cfg, impl, builds, changes, last, sgn, lm, dp, calls>>

NextIndex ==
    \/ IndexEnter
    \/ IndexLinemodPixel
    \/ IndexFalsElement

SpecIndex == InitIndex /\ [][NextIndex]_vars

\* every index used in the last step lies inside its buffer
IndicesInside ==
    /\ \A k \in ix.reads : Inside(ix.in, k)
    /\ \A k \in ix.writes : Inside(ix.out, k)

\* C16: for every input that passes the validation of compute(), whatever
\* its rows and cols, every index that an estimator reads from the input
\* buffer (LINEMOD's offsets j * cols + i included) and every index it writes
\* to the output lies inside the buffer received or allocated.
C16_IndicesInsideBuffers == IndicesInside

\* the same for inputs of exactly the estimator's size
C16_IndicesInsideWhenSizesAgree ==
    (ix.in.rows = ix.rows_ /\ ix.in.cols = ix.cols_) => IndicesInside

\* an estimator has walked an input of its own size to the end
C16_SizesAgreeReached ==
    /\ ix.stage = "done" /\ ix.in.rows = ix.rows_ /\ ix.in.cols = ix.cols_


============================================================================
